---- MODULE Spec2Model ----
(***************************************************************************)
(* TrendPulse backend (src/main.py): the /analyze pipeline.                *)
(*                                                                         *)
(* Each request thread runs analyze(); FastAPI runs a plain "def" endpoint *)
(* in a thread pool, so several analyze calls interleave at every blocking *)
(* call (time.sleep, the provider's network calls).  The shared state is   *)
(* the module-level dict "cache" and the module-level client "pytrend".    *)
(*                                                                         *)
(* Strings are sequences of one-character strings, so that strip(),        *)
(* lower() and the substring test '429' in str(e) are computed.            *)
(* Provider values are counted in halves (3 stands for 1.5), so that the   *)
(* int(v) coercion of clean_data is a truncation and not the identity.     *)
(* A slope is the exact fraction <<num, den>> with den > 0.                *)
(***************************************************************************)
EXTENDS Integers, Sequences, FiniteSets, TLC

\* the program's state: the two module globals, and per request thread the
\* position in analyze and its locals
VARIABLES cache, pytrend, pc, keyword, attempt, response, outcome
\* the observations the properties are stated on.  Per thread, while its
\* call runs: the sleeps taken, the provider's answer to each finished
\* attempt, and whether the global client was rebound since the thread
\* built its payload; once it ended: the provider's answer to its last
\* attempt and whether the related lookup failed.  Over the run: the calls
\* made and the stores per keyword.
VARIABLES sleeps, answers, stale, final, lookup, calls, stores
\* per thread, the series clean_data returned to its call (line 169), kept
\* once the call ended; <<>> when the call did not get that far
VARIABLE cleaned
\* per thread, analyze's local slope (line 177) while its call runs
VARIABLE slopes

vars == <<cache, pytrend, pc, keyword, attempt, response, outcome,
          sleeps, answers, stale, final, lookup, calls, stores, cleaned,
          slopes>>

(* ---------------------------- bounds ---------------------------------- *)
NumThreads == 2
MaxCalls == 2
\* the common differences of the series the classifier is run on
MaxDiff == 5

Threads == 1..NumThreads

(* ------------------------ program constants --------------------------- *)
max_retries == 3
limit == 3
PauseFetch == 2
PauseRelated == 1
BackoffUnit == 10
WindowLen == 7
MinPoints == 2

(* ------------------------------ strings ------------------------------- *)
S429 == <<"4", "2", "9">>

\* sub in s   (Python's substring test)
Contains(s, sub) ==
  \E i \in 0..(Len(s) - Len(sub)) :
     \A j \in 1..Len(sub) : s[i + j] = sub[j]

LowerChar(c) == IF c = "A" THEN "a" ELSE IF c = "B" THEN "b" ELSE c

Lower(s) == [i \in 1..Len(s) |-> LowerChar(s[i])]

IsSpace(c) == c = " "

RECURSIVE LStrip(_)
LStrip(s) == IF s # <<>> /\ IsSpace(Head(s)) THEN LStrip(Tail(s)) ELSE s

RECURSIVE RStrip(_)
RStrip(s) ==
  IF s # <<>> /\ IsSpace(s[Len(s)]) THEN RStrip(SubSeq(s, 1, Len(s) - 1)) ELSE s

Strip(s) == RStrip(LStrip(s))

\* request.keyword.strip().lower()
Normalize(raw) == Lower(Strip(raw))

\* the request bodies the callers send
RawKeywords ==
  { <<" ", "A">>, <<"a">>, <<"4", "2", "9">>, <<" ">> }

Keywords == { Normalize(raw) : raw \in RawKeywords } \ { <<>> }

\* str(KeyError(k)) is repr(k): the key in quotes
KeyErrorMsg(k) == <<"'">> \o k \o <<"'">>

\* pytrends' ResponseError for a rate-limited request
RateLimitMsg == <<"c", "o", "d", "e", " ", "4", "2", "9">>

\* a transport failure; its message quotes the request URL, which carries
\* the keyword
ConnMsg(kw) == <<"u", "r", "l", "=">> \o kw

\* what a provider call can raise: the HTTP status the provider answered
\* (0: no answer) and str(e)
RateLimitError == [status |-> 429, msg |-> RateLimitMsg]
ConnError(kw) == [status |-> 0, msg |-> ConnMsg(kw)]

\* the token request of build_payload about kw is rate-limited or does not
\* get through
BuildErrors(kw) == { RateLimitError, ConnError(kw) }

\* the series request of interest_over_time is rate-limited
ReadErrors == { RateLimitError }

\* interest_over_time() on a client whose payload was never built:
\* the widget dict is empty, KeyError('request')
NoPayloadMsg == KeyErrorMsg(<<"r", "e", "q">>)

(* ------------------------- the classifier ----------------------------- *)
RECURSIVE SumSeq(_)
SumSeq(s) == IF s = <<>> THEN 0 ELSE Head(s) + SumSeq(Tail(s))

Abs(v) == IF v < 0 THEN -v ELSE v

\* int(v) of a value counted in halves: truncation toward zero
IntOf(h) == IF h >= 0 THEN h \div 2 ELSE -((-h) \div 2)

\* calculate_slope, were sum_x not squared in the denominator
calculate_slope_unsquared(data_points) ==
  LET n == Len(data_points)
      x == [i \in 1..n |-> i - 1]
      sum_x == SumSeq(x)
      sum_y == SumSeq(data_points)
      sum_xy == SumSeq([i \in 1..n |-> x[i] * data_points[i]])
      sum_x_squared == SumSeq([i \in 1..n |-> x[i] * x[i]])
      denominator == n * sum_x_squared - sum_x
  IN  IF n < 2 THEN <<0, 1>>
      ELSE IF denominator = 0 THEN <<0, 1>>
      ELSE <<n * sum_xy - sum_x * sum_y, denominator>>

\* calculate_slope: the fraction <<num, den>>, den > 0
calculate_slope(data_points) ==
  LET n == Len(data_points)
      x == [i \in 1..n |-> i - 1]
      sum_x == SumSeq(x)
      sum_y == SumSeq(data_points)
      sum_xy == SumSeq([i \in 1..n |-> x[i] * data_points[i]])
      sum_x_squared == SumSeq([i \in 1..n |-> x[i] * x[i]])
      denominator == n * sum_x_squared - sum_x * sum_x
  IN  IF n < 2 THEN <<0, 1>>
      ELSE IF denominator = 0 THEN <<0, 1>>
      ELSE <<n * sum_xy - sum_x * sum_y, denominator>>

\* classify_trend, were the thresholds inclusive
classify_trend_inclusive(slope) ==
  IF 5 * slope[1] >= 4 * slope[2] THEN "Rising"
  ELSE IF 5 * slope[1] <= -4 * slope[2] THEN "Declining"
  ELSE "Stable"

\* slope > 0.8 is num/den > 4/5
classify_trend(slope) ==
  IF 5 * slope[1] > 4 * slope[2] THEN "Rising"
  ELSE IF 5 * slope[1] < -4 * slope[2] THEN "Declining"
  ELSE "Stable"

\* Python's round() of the non-negative fraction p/q: half to even
RoundHalfEven(p, q) ==
  LET f == p \div q
      r2 == 2 * (p % q)
  IN  IF r2 < q THEN f
      ELSE IF r2 > q THEN f + 1
      ELSE IF f % 2 = 0 THEN f ELSE f + 1

\* calculate_score, were the upper clamp missing
calculate_score_unclamped(slope) ==
  LET p == 12 * slope[1] + 50 * slope[2]
      q == slope[2]
  IN  IF p < 0 THEN 0 ELSE RoundHalfEven(p, q)

\* round(max(0, min(100, slope * 12 + 50)))
calculate_score(slope) ==
  LET p == 12 * slope[1] + 50 * slope[2]
      q == slope[2]
  IN  IF p > 100 * q THEN 100
      ELSE IF p < 0 THEN 0
      ELSE RoundHalfEven(p, q)

\* abs(slope) > 1.2 is |num|/den > 6/5, > 0.6 is > 3/5
determine_confidence(slope) ==
  LET abs_slope == Abs(slope[1])
  IN  IF 5 * abs_slope > 6 * slope[2] THEN "High"
      ELSE IF 5 * abs_slope > 3 * slope[2] THEN "Medium"
      ELSE "Low"

get_best_posting_time(trend) ==
  IF trend = "Rising" THEN "7 PM - 10 PM"
  ELSE IF trend = "Declining" THEN "9 AM - 12 PM"
  ELSE "12 PM - 3 PM"

(* --------------------------- the cleaner ------------------------------ *)
\* a provider table: the keyword column named by kw_list, plus isPartial
EmptyFrame == [kw_list |-> <<>>, values |-> <<>>, isPartial |-> FALSE]

\* values[-7:] if len(values) >= 7 else values
LastWindow(values) ==
  IF Len(values) >= WindowLen
  THEN SubSeq(values, Len(values) - WindowLen + 1, Len(values))
  ELSE values

\* clean_data when the keyword column exists
clean_data(data) ==
  IF data.values = <<>> THEN <<>>
  ELSE LET last_7 == LastWindow(data.values)
       IN  [i \in 1..Len(last_7) |-> IntOf(last_7[i])]

\* data[keyword] raises KeyError when the table has no such column
HasColumn(data, kw) == \E i \in 1..Len(data.kw_list) : data.kw_list[i] = kw

(* ----------------------- related suggestions -------------------------- *)
\* RelatedTitles, were the suggestions not cut to the limit
RelatedTitlesNoLimit(suggestions) == SelectSeq(suggestions, LAMBDA sg : sg.hasTitle)

\* lines 140-145: the first limit suggestions, those without a title skipped
RelatedTitles(suggestions) ==
  LET firstN == SubSeq(suggestions, 1,
                       IF Len(suggestions) < limit THEN Len(suggestions) ELSE limit)
  IN  SelectSeq(firstN, LAMBDA sg : sg.hasTitle)

TitlesOf(sgs) == [i \in 1..Len(sgs) |-> sgs[i].title]

(* --------------------------- the provider ----------------------------- *)
\* the interest values the provider may report for the keyword kw, in
\* halves: no rows, one row or a rising series for "a", a falling or a
\* level series for any other keyword
ProviderValues(kw) ==
  IF kw = <<"a">> THEN { <<>>, <<21>>, <<0, 3>> } ELSE { <<7, 0>>, <<2, 3>> }

\* the suggestion list the provider reports
ProviderSuggestions ==
  { << [hasTitle |-> TRUE, title |-> "t1"], [hasTitle |-> FALSE, title |-> ""],
       [hasTitle |-> TRUE, title |-> "t3"], [hasTitle |-> TRUE, title |-> "t4"],
       [hasTitle |-> TRUE, title |-> "t5"] >> }

\* TrendReq(...): a fresh client, no payload built yet
get_pytrend == [kw_list |-> <<>>, built |-> FALSE]

(* ------------------------------ state --------------------------------- *)
NoResponse ==
  [trend |-> "", score |-> 0, confidence |-> "", related_keywords |-> <<>>,
   best_posting_time |-> "", graph_data |-> <<>>]

\* the slope 0.0
NoSlope == <<0, 1>>

NoOutcome == [status |-> 0, kind |-> "None", detail |-> <<>>, body |-> NoResponse]

Ok(body) == [status |-> 200, kind |-> "Ok", detail |-> <<>>, body |-> body]

Failure(status, kind, detail) ==
  [status |-> status, kind |-> kind, detail |-> detail, body |-> NoResponse]

InvalidInput == Failure(400, "InvalidInput", <<>>)
NotFound(kw) == Failure(404, "NotFound", kw)
InsufficientData == Failure(400, "InsufficientData", <<>>)

\* ClassifyException, were every exception answered 500
ClassifyExceptionAll500(error_msg) == Failure(500, "Internal", error_msg)

\* analyze's "except Exception as e": 429 if '429' in str(e), else 500
\* carrying the message
ClassifyException(error_msg) ==
  IF Contains(error_msg, S429)
  THEN Failure(429, "RateLimited", <<>>)
  ELSE Failure(500, "Internal", error_msg)

\* ShouldRetry, were every failure retried while attempts remain
ShouldRetryAny(error_msg, att) == att < max_retries - 1

\* fetch_trends_data's "except Exception as e": retry or re-raise
ShouldRetry(error_msg, att) ==
  Contains(error_msg, S429) /\ att < max_retries - 1

Init ==
  /\ cache = [k \in {} |-> NoResponse]
  /\ pytrend = get_pytrend
  /\ pc = [r \in Threads |-> "idle"]
  /\ keyword = [r \in Threads |-> <<>>]
  /\ attempt = [r \in Threads |-> 0]
  /\ response = [r \in Threads |-> NoResponse]
  /\ outcome = [r \in Threads |-> NoOutcome]
  /\ sleeps = [r \in Threads |-> <<>>]
  /\ answers = [r \in Threads |-> <<>>]
  /\ stale = [r \in Threads |-> FALSE]
  /\ final = [r \in Threads |-> "none"]
  /\ lookup = [r \in Threads |-> "none"]
  /\ calls = 0
  /\ stores = [k \in Keywords |-> 0]
  /\ cleaned = [r \in Threads |-> <<>>]
  /\ slopes = [r \in Threads |-> NoSlope]

\* the call of thread r ends with outcome out, the provider's last answer
\* having been ans; the call's locals are gone
Finish(r, out, ans) ==
  /\ pc' = [pc EXCEPT ![r] = "done"]
  /\ outcome' = [outcome EXCEPT ![r] = out]
  /\ final' = [final EXCEPT ![r] = ans]
  /\ attempt' = [attempt EXCEPT ![r] = 0]
  /\ response' = [response EXCEPT ![r] = NoResponse]
  /\ sleeps' = [sleeps EXCEPT ![r] = <<>>]
  /\ answers' = [answers EXCEPT ![r] = <<>>]
  /\ slopes' = [slopes EXCEPT ![r] = NoSlope]

\* the call goes on at position next, one more sleep taken (0: none)
Goto(r, next, slept) ==
  /\ pc' = [pc EXCEPT ![r] = next]
  /\ sleeps' = [sleeps EXCEPT ![r] = IF slept = 0 THEN @ ELSE Append(@, slept)]
  /\ UNCHANGED <<outcome, final, cache, slopes>>

\* Fail, were the failing call to leave an entry for its keyword behind
FailStoring(r, out, ans) ==
  /\ Finish(r, out, ans)
  /\ cache' = [k \in DOMAIN cache \cup {keyword[r]} |->
                 IF k = keyword[r] THEN NoResponse ELSE cache[k]]

\* the call of thread r ends in an HTTPException: nothing is stored
Fail(r, out, ans) ==
  /\ Finish(r, out, ans)
  /\ cache' = cache

AnswerOf(err) == IF err.status = 429 THEN "429" ELSE "error"

\* an exception err is raised inside the try of fetch_trends_data at attempt
\* attempt[r], after a sleep of slept (lines 57-63): retried after a
\* backoff, or re-raised into analyze's handlers (lines 197-209)
RaiseInFetch(r, err, slept) ==
  IF ShouldRetry(err.msg, attempt[r])
  THEN /\ Goto(r, "backoff", slept)
       /\ answers' = [answers EXCEPT ![r] = Append(@, AnswerOf(err))]
       /\ UNCHANGED <<attempt, response>>
  ELSE Fail(r, ClassifyException(err.msg), AnswerOf(err))

\* CacheHit, were the lookup never to find the keyword
CacheHitNever(c, kw) == FALSE

\* line 157: keyword in cache
CacheHit(c, kw) == kw \in DOMAIN c

\* analyze, lines 152-158: normalise, reject the empty keyword, look up the
\* cache; a miss enters fetch_trends_data
Start(r) ==
  /\ pc[r] \in {"idle", "done"}
  /\ calls < MaxCalls
  /\ calls' = calls + 1
  /\ lookup' = [lookup EXCEPT ![r] = "none"]
  /\ cleaned' = [cleaned EXCEPT ![r] = <<>>]
  /\ \E raw \in RawKeywords :
       LET kw == Normalize(raw) IN
       /\ keyword' = [keyword EXCEPT ![r] = kw]
       /\ IF kw = <<>> THEN Fail(r, InvalidInput, "none")
          ELSE IF CacheHit(cache, kw)
          THEN /\ Finish(r, Ok(cache[kw]), "none")
               /\ UNCHANGED cache
          ELSE /\ pc' = [pc EXCEPT ![r] = "build"]
               /\ outcome' = [outcome EXCEPT ![r] = NoOutcome]
               /\ final' = [final EXCEPT ![r] = "none"]
               /\ UNCHANGED <<cache, attempt, response, sleeps, answers,
                              slopes>>
  /\ UNCHANGED <<pytrend, stale, stores>>

\* lines 53-54: time.sleep(2); pytrend.build_payload([keyword]) on the
\* client the global names now.  The client records the keyword list, then
\* asks the provider for the query tokens, which may fail.
BuildPayload(r) ==
  /\ pc[r] = "build"
  /\ \/ /\ pytrend' = [pytrend EXCEPT !.kw_list = <<keyword[r]>>, !.built = TRUE]
        /\ Goto(r, "read", PauseFetch)
        /\ UNCHANGED <<answers, attempt, response>>
     \/ /\ pytrend' = [pytrend EXCEPT !.kw_list = <<keyword[r]>>]
        /\ \E err \in BuildErrors(keyword[r]) : RaiseInFetch(r, err, PauseFetch)
  /\ stale' = [stale EXCEPT ![r] = FALSE]
  /\ UNCHANGED <<keyword, lookup, calls, stores, cleaned>>

\* TooShort, were only the empty series rejected
TooShortOnlyEmpty(graph_data) == Len(graph_data) < 1

\* line 171: len(graph_data) < 2
TooShort(graph_data) == Len(graph_data) < MinPoints

\* Classified, were the trend taken from a slope other than the series'
ClassifiedOtherTrend(graph_data, slope) ==
  LET trend == classify_trend(NoSlope)
  IN  [trend |-> trend,
       score |-> calculate_score(slope),
       confidence |-> determine_confidence(slope),
       related_keywords |-> <<>>,
       best_posting_time |-> get_best_posting_time(trend),
       graph_data |-> graph_data]

\* lines 178-191: the response of a cleaned series and its slope, before
\* the related lookup
Classified(graph_data, slope) ==
  LET trend == classify_trend(slope)
  IN  [trend |-> trend,
       score |-> calculate_score(slope),
       confidence |-> determine_confidence(slope),
       related_keywords |-> <<>>,
       best_posting_time |-> get_best_posting_time(trend),
       graph_data |-> graph_data]

\* analyze after fetch_trends_data returned data (lines 163-181): the empty
\* check, clean_data and the classifier
CleanAndClassify(r, data) ==
  IF data.values = <<>>
  THEN Fail(r, NotFound(keyword[r]), "ok") /\ UNCHANGED cleaned
  ELSE IF ~HasColumn(data, keyword[r])
  THEN /\ Fail(r, ClassifyException(KeyErrorMsg(keyword[r])), "ok")
       /\ UNCHANGED cleaned
  ELSE LET graph_data == clean_data(data)
           slope == calculate_slope(graph_data)
       IN  /\ cleaned' = [cleaned EXCEPT ![r] = graph_data]
           /\ IF TooShort(graph_data)
              THEN Fail(r, InsufficientData, "ok")
              ELSE /\ slopes' = [slopes EXCEPT ![r] = slope]
                   /\ response' = [response EXCEPT ![r] =
                                     Classified(graph_data, slope)]
                   /\ pc' = [pc EXCEPT ![r] = "related"]
                   /\ answers' = [answers EXCEPT ![r] = Append(@, "ok")]
                   /\ UNCHANGED <<attempt, sleeps, outcome, final, cache>>

\* lines 55-56: data = pytrend.interest_over_time() on the client the global
\* names now, whose keyword list names the table's column; then analyze
\* goes on with the data up to the related lookup
InterestOverTime(r) ==
  /\ pc[r] = "read"
  /\ IF ~pytrend.built
     THEN /\ RaiseInFetch(r, [status |-> 0, msg |-> NoPayloadMsg], 0)
          /\ UNCHANGED cleaned
     ELSE \/ /\ \E err \in ReadErrors : RaiseInFetch(r, err, 0)
             /\ UNCHANGED cleaned
          \/ \E v \in ProviderValues(pytrend.kw_list[1]) :
               CleanAndClassify(r, [kw_list |-> pytrend.kw_list, values |-> v,
                                    isPartial |-> TRUE])
  /\ stale' = [stale EXCEPT ![r] = FALSE]
  /\ UNCHANGED <<pytrend, keyword, lookup, calls, stores>>

\* WaitTime, were the wait attempt * 10
WaitTimeFromZero(att) == att * BackoffUnit

\* WaitTime, were the wait the same after every attempt
WaitTimeFlat(att) == BackoffUnit

\* line 59: wait_time = (attempt + 1) * 10
WaitTime(att) == (att + 1) * BackoffUnit

\* Backoff, were the retry to start the attempts over
BackoffRestart(r) ==
  /\ pc[r] = "backoff"
  /\ pytrend' = get_pytrend
  /\ stale' = [t \in Threads |-> pc[t] = "read"]
  /\ pc' = [pc EXCEPT ![r] = "build"]
  /\ attempt' = [attempt EXCEPT ![r] = 0]
  /\ sleeps' = [sleeps EXCEPT ![r] = <<>>]
  /\ answers' = [answers EXCEPT ![r] = <<>>]
  /\ UNCHANGED <<cache, keyword, response, outcome, final, lookup, calls,
                 stores, cleaned, slopes>>

\* lines 59-62: time.sleep(wait_time); pytrend = get_pytrend(); continue.
\* Were the loop to run out (line 64, return None), analyze would answer
\* 404 at line 163.
Backoff(r) ==
  /\ pc[r] = "backoff"
  /\ pytrend' = get_pytrend
  /\ stale' = [t \in Threads |-> pc[t] = "read"]
  /\ IF attempt[r] + 1 < max_retries
     THEN /\ attempt' = [attempt EXCEPT ![r] = @ + 1]
          /\ Goto(r, "build", WaitTime(attempt[r]))
          /\ UNCHANGED <<response, answers>>
     ELSE Fail(r, NotFound(keyword[r]), "none")
  /\ UNCHANGED <<keyword, lookup, calls, stores, cleaned>>

\* cache[keyword] = response
CachePut(c, kw, resp) ==
  [k \in DOMAIN c \cup {kw} |-> IF k = kw THEN resp ELSE c[k]]

\* fetch_related_keywords (lines 136-147), given what the provider did: the
\* titles, or [] when the lookup raised
fetch_related_keywords(failed, suggestions) ==
  IF failed THEN <<>> ELSE TitlesOf(RelatedTitles(suggestions))

\* lines 182-195: related_keywords = fetch_related_keywords(keyword), which
\* sleeps 1 and asks the provider for suggestions; then the response is
\* assembled, stored in the cache and returned
FetchRelatedAndStore(r) ==
  /\ pc[r] = "related"
  /\ \E failed \in BOOLEAN, sgs \in ProviderSuggestions :
       LET resp == [response[r] EXCEPT
                      !.related_keywords = fetch_related_keywords(failed, sgs)]
       IN  /\ lookup' = [lookup EXCEPT ![r] = IF failed THEN "failed" ELSE "ok"]
           /\ cache' = CachePut(cache, keyword[r], resp)
           /\ Finish(r, Ok(resp), "ok")
  /\ stores' = [stores EXCEPT ![keyword[r]] = @ + 1]
  /\ UNCHANGED <<pytrend, keyword, stale, calls, cleaned>>

Step(r) ==
  \/ Start(r)
  \/ BuildPayload(r)
  \/ InterestOverTime(r)
  \/ Backoff(r)
  \/ FetchRelatedAndStore(r)

Next == \E r \in Threads : Step(r)

Spec == Init /\ [][Next]_vars

\* one call at a time: a thread moves only while no other call is running
Sequential(r) == \A o \in Threads \ {r} : pc[o] \in {"idle", "done"}

NextSeq == \E r \in Threads : Sequential(r) /\ Step(r)

SpecSeq == Init /\ [][NextSeq]_vars

\* a thread inside a call goes on: time.sleep returns, and a provider call
\* returns or raises
Continue(r) == pc[r] \notin {"idle", "done"} /\ Step(r)

Fairness == \A r \in Threads : WF_vars(Continue(r))

SpecFair == Init /\ [][Next]_vars /\ Fairness

(* ---------------------- the classifier on its own --------------------- *)
\* the arithmetic progression a, a + d, ... of n points
AP(a, d, n) == [i \in 1..n |-> a + (i - 1) * d]

Diffs == (-MaxDiff..MaxDiff) \cup {-10, 10}

\* series whose slopes lie on and next to the thresholds 0.6, 0.8 and 1.2,
\* of each length with a denominator of its own
ThresholdSeries ==
  { <<0, 0, 2, 2>>, <<2, 2, 0, 0>>, <<0, 0, 0, 3>>, <<3, 0, 0, 0>>,
    <<0, 0, 0, 2>>, <<0, 0, 0, 4>>, <<0, 0, 1, 4>>, <<4, 1, 0, 0>>,
    <<0, 5, 1>>, <<1, 0, 0, 0, 5>>, <<0, 0, 0, 0, 4>>, <<9, 0, 0, 0, 0>>,
    <<0, 0, 0, 0, 0, 7>>, <<7, 0, 0, 0, 0, 1>>, <<0, 0, 0, 0, 0, 0, 8>>,
    <<50, 0, 0, 0, 0, 0, 0>>, <<0, 0, 0, 0, 0, 0, 40>> }

\* the cleaned series the classifier is run on: the progressions of up to
\* WindowLen points, and the threshold series
SampleSeries ==
  { AP(5, d, n) : d \in Diffs, n \in 0..WindowLen }
     \cup { AP(10, 10, WindowLen) } \cup ThresholdSeries

\* the two calls whose classifications are compared
Pair == {1, 2}

\* two calls have each cleaned a series (line 169)
InitClassifier ==
  /\ \E s1, s2 \in SampleSeries :
        cleaned = [r \in Threads |->
                     IF r = 1 THEN s1 ELSE IF r = 2 THEN s2 ELSE <<>>]
  /\ cache = [k \in {} |-> NoResponse]
  /\ pytrend = get_pytrend
  /\ pc = [r \in Threads |-> "idle"]
  /\ keyword = [r \in Threads |-> <<>>]
  /\ attempt = [r \in Threads |-> 0]
  /\ response = [r \in Threads |-> NoResponse]
  /\ outcome = [r \in Threads |-> NoOutcome]
  /\ sleeps = [r \in Threads |-> <<>>]
  /\ answers = [r \in Threads |-> <<>>]
  /\ stale = [r \in Threads |-> FALSE]
  /\ final = [r \in Threads |-> "none"]
  /\ lookup = [r \in Threads |-> "none"]
  /\ calls = 0
  /\ stores = [k \in Keywords |-> 0]
  /\ slopes = [r \in Threads |-> NoSlope]

\* lines 177-181 on the cleaned series of thread r
Classify(r) ==
  /\ r \in Pair /\ pc[r] = "idle"
  /\ LET slope == calculate_slope(cleaned[r])
     IN  /\ slopes' = [slopes EXCEPT ![r] = slope]
         /\ response' = [response EXCEPT ![r] = Classified(cleaned[r], slope)]
  /\ pc' = [pc EXCEPT ![r] = "related"]
  /\ UNCHANGED <<cache, pytrend, keyword, attempt, outcome, sleeps, answers,
                 stale, final, lookup, calls, stores, cleaned>>

NextClassifier == \E r \in Threads : Classify(r)

SpecClassifier == InitClassifier /\ [][NextClassifier]_vars

(* ============================ properties ============================== *)
InFlight == {"build", "read", "backoff", "related"}

\* thread r ends a call in this step
Ends(r) == pc'[r] = "done" /\ (pc[r] \in InFlight \/ calls' # calls)

All429(s) == \A i \in 1..Len(s) : s[i] = "429"

\* the sleeps of a fetch whose first k attempts were rate-limited, up to the
\* query of attempt k+1: pause, 10, pause, 20, ..., pause
ExpectedSleeps(k) ==
  [i \in 1..(2 * k + 1) |-> IF i % 2 = 1 THEN 2 ELSE 10 * (i \div 2)]

(* C1: the cache holds an entry for a keyword only if an analyze call for  *)
(* that keyword succeeded; a step in which a call ends in a failure leaves *)
(* the cache as it was, the cache changes only in a step in which a call   *)
(* ends successfully, by exactly that call's keyword and result, and a     *)
(* call is answered without a fetch only for a keyword in the cache.       *)
C1_CacheOnlyOnSuccess ==
  /\ [](\A k \in DOMAIN cache : stores[k] > 0)
  /\ [][ /\ \A r \in Threads :
              (Ends(r) /\ outcome'[r].kind # "Ok") => cache' = cache
         /\ cache' # cache =>
              \E r \in Threads :
                 /\ pc[r] = "related" /\ pc'[r] = "done"
                 /\ outcome'[r].kind = "Ok"
                 /\ DOMAIN cache' = DOMAIN cache \cup {keyword[r]}
                 /\ cache'[keyword[r]] = outcome'[r].body
                 /\ \A k \in DOMAIN cache \ {keyword[r]} : cache'[k] = cache[k]
         /\ \A r \in Threads :
              (Ends(r) /\ outcome'[r].kind = "Ok" /\ final'[r] = "none")
                 => keyword'[r] \in DOMAIN cache
       ]_vars

\* a call has failed for a keyword that is not in the cache, while another
\* keyword is
C1_Witness ==
  \E r \in Threads :
     /\ pc[r] = "done" /\ outcome[r].kind = "RateLimited"
     /\ keyword[r] \notin DOMAIN cache
     /\ DOMAIN cache # {}

(* C2, as stated: in a sequential run a call for a cached keyword returns  *)
(* the cached result without any provider query, and the provider is       *)
(* queried for the keyword's series at most once by the call that          *)
(* succeeded.                                                              *)
C2_QueriedAtMostOnce ==
  \A r \in Threads :
     /\ (pc[r] = "done" /\ final[r] = "none" /\ keyword[r] \in DOMAIN cache)
           => outcome[r] = Ok(cache[keyword[r]])
     /\ pc[r] \in InFlight => keyword[r] \notin DOMAIN cache
     /\ pc[r] = "related" => Len(answers[r]) <= 1

(* C2, amended: in a sequential run, once a keyword is in the cache its    *)
(* entry never changes, a call for it returns that entry, and no call for  *)
(* it sleeps or queries the provider; the call that succeeded made between *)
(* 1 and max_retries series queries.                                       *)
C2_NoQueryOnceCached ==
  /\ [](\A r \in Threads :
          /\ (pc[r] = "done" /\ final[r] = "none" /\ keyword[r] \in DOMAIN cache)
                => outcome[r] = Ok(cache[keyword[r]])
          /\ pc[r] \in InFlight => keyword[r] \notin DOMAIN cache
          /\ pc[r] = "related" => Len(answers[r]) \in 1..max_retries)
  /\ [][\A k \in DOMAIN cache : k \in DOMAIN cache' /\ cache'[k] = cache[k]]_vars

\* a call has been answered from the cache
C2_Witness ==
  \E r \in Threads :
     /\ pc[r] = "done" /\ final[r] = "none"
     /\ outcome[r].kind = "Ok" /\ outcome[r].body = cache[keyword[r]]

(* C3: a fetch whose first k attempts were rate-limited (k < max_retries)  *)
(* has, when attempt k+1 is queried and when it has returned the series,   *)
(* paused k+1 times (one query each) and waited 10, 20, ..., 10*k between  *)
(* the attempts, in that order.                                            *)
C3_EscalatingBackoff ==
  \A r \in Threads :
     /\ (pc[r] = "read" /\ All429(answers[r]))
           => /\ Len(answers[r]) < max_retries
              /\ sleeps[r] = ExpectedSleeps(Len(answers[r]))
     /\ (pc[r] = "related" /\ All429(SubSeq(answers[r], 1, Len(answers[r]) - 1)))
           => /\ Len(answers[r]) <= max_retries
              /\ answers[r][Len(answers[r])] = "ok"
              /\ sleeps[r] = ExpectedSleeps(Len(answers[r]) - 1)

\* 429, 429, then the series: three queries, waits 10 and 20
C3_Witness ==
  \E r \in Threads :
     /\ pc[r] = "related" /\ answers[r] = <<"429", "429", "ok">>
     /\ sleeps[r] = <<2, 10, 2, 20, 2>>

(* C4: a call whose attempts were all rate-limited ends only at attempt    *)
(* max_retries, and then with RateLimited (HTTP 429).                      *)
C4_RateLimitedAfterMaxRetries ==
  [][\A r \in Threads :
        (pc[r] \in {"build", "read"} /\ pc'[r] = "done" /\ final'[r] = "429"
           /\ All429(answers[r]))
        => /\ Len(answers[r]) + 1 = max_retries
           /\ outcome'[r].kind = "RateLimited"
           /\ outcome'[r].status = 429]_vars

\* three rate-limited attempts for a keyword whose other failures are not
\* retried
C4_Witness ==
  \E r \in Threads :
     /\ pc[r] = "done" /\ keyword[r] = <<"a">> /\ final[r] = "429"
     /\ outcome[r].kind = "RateLimited"

(* C5, as stated: a call ends RateLimited only when the provider's last    *)
(* answer to its series fetch was a rate-limit signal, and a fetch that    *)
(* ended on any other failure ends Internal.                               *)
C5_RateLimitedOnlyOnSignal ==
  \A r \in Threads :
     pc[r] = "done" =>
        /\ outcome[r].kind = "RateLimited" => final[r] = "429"
        /\ final[r] = "error" => outcome[r].kind = "Internal"

(* C6, as stated: no attempt reads the series on a client other than the   *)
(* one it built its payload on.                                            *)
C6_HandleNotRebound ==
  [][\A r \in Threads : (pc[r] = "read" /\ pc'[r] # "read") => ~stale[r]]_vars

(* C7, as stated: the series an attempt reads back is the series of its    *)
(* own keyword.                                                            *)
C7_OwnKeywordSeries ==
  [][\A r \in Threads :
        (pc[r] = "read" /\ pc'[r] # "read" /\ pytrend.built)
           => pytrend.kw_list = <<keyword[r]>>]_vars

\* the calls for keyword k that are past the cache lookup and not yet ended
Running(k) == { r \in Threads : pc[r] \in InFlight /\ keyword[r] = k }

(* C8, as stated: at most one fetch-classify-store run completes per       *)
(* keyword.                                                                *)
C8_AtMostOneRun == \A k \in Keywords : stores[k] <= 1

(* C8, amended: once a keyword is in the cache no run begins for it, and   *)
(* each further run that completes for it is one of the calls that had     *)
(* already missed the cache.                                               *)
C8_NoRunOnceCached ==
  [][\A k \in DOMAIN cache :
        /\ Running(k)' \subseteq Running(k)
        /\ stores'[k] # stores[k] =>
              /\ stores'[k] = stores[k] + 1
              /\ Running(k)' # Running(k)]_vars

\* two runs have completed for one keyword
C8_Witness == \E k \in Keywords : stores[k] = 2

(* C9, as stated: an entry of the cache stays, with the same value.        *)
C9_EntriesStable ==
  [][\A k \in DOMAIN cache : k \in DOMAIN cache' /\ cache'[k] = cache[k]]_vars

\* rel is the titles, in the provider's order, of those of the first three
\* suggestions that have one
IsFirstThreeTitles(rel, sgs) ==
  LET idx == { i \in 1..Len(sgs) : i <= 3 /\ sgs[i].hasTitle }
  IN  /\ Len(rel) = Cardinality(idx)
      /\ \E f \in [1..Len(rel) -> idx] :
            /\ \A i, j \in 1..Len(rel) : i < j => f[i] < f[j]
            /\ \A i \in 1..Len(rel) : rel[i] = sgs[f[i]].title

(* C10: a call that reached the related lookup (its fetch succeeded and    *)
(* the cleaned series has at least 2 points) ends successfully whatever    *)
(* the lookup does: the result is the classification made before the       *)
(* lookup, it is stored in the cache, and its related keywords are empty   *)
(* if the lookup failed and otherwise at most 3 titles in provider order.  *)
C10_LookupNeverFails ==
  /\ [](\A r \in Threads : pc[r] = "related" => Len(response[r].graph_data) >= 2)
  /\ [][\A r \in Threads :
          (pc[r] = "related" /\ pc'[r] # "related") =>
             /\ pc'[r] = "done"
             /\ outcome'[r].kind = "Ok" /\ outcome'[r].status = 200
             /\ [outcome'[r].body EXCEPT !.related_keywords = <<>>] = response[r]
             /\ keyword[r] \in DOMAIN cache'
             /\ cache'[keyword[r]] = outcome'[r].body
             /\ lookup'[r] \in {"ok", "failed"}
             /\ lookup'[r] = "failed" => outcome'[r].body.related_keywords = <<>>
             /\ lookup'[r] = "ok" =>
                   /\ Len(outcome'[r].body.related_keywords) <= 3
                   /\ \E sgs \in ProviderSuggestions :
                         IsFirstThreeTitles(outcome'[r].body.related_keywords, sgs)
       ]_vars

\* a call whose lookup failed has succeeded with no related keywords
C10_Witness ==
  \E r \in Threads :
     /\ pc[r] = "done" /\ lookup[r] = "failed"
     /\ outcome[r].kind = "Ok" /\ outcome[r].body.related_keywords = <<>>
     /\ cache[keyword[r]] = outcome[r].body

(* C11: a call whose cleaned series has fewer than MinPoints points (one   *)
(* point: clean_data is not reached with no rows) fails with               *)
(* InsufficientData in the step that cleaned it: no response is assembled, *)
(* the related lookup is not issued, and the cache and its stores are left *)
(* as they were.                                                           *)
C11_ShortSeriesStopsEarly ==
  /\ [](\A r \in Threads :
          (cleaned[r] # <<>> /\ Len(cleaned[r]) < MinPoints) =>
             /\ pc[r] = "done"
             /\ outcome[r] = InsufficientData
             /\ response[r] = NoResponse
             /\ lookup[r] = "none")
  /\ [][\A r \in Threads :
          (cleaned'[r] \notin {<<>>, cleaned[r]} /\ Len(cleaned'[r]) < MinPoints) =>
             /\ pc[r] = "read" /\ pc'[r] = "done"
             /\ outcome'[r].kind = "InsufficientData"
             /\ outcome'[r].status = 400
             /\ cache' = cache /\ stores' = stores /\ lookup' = lookup
       ]_vars

\* a call whose series had one point has failed, its keyword not cached
C11_Witness ==
  \E r \in Threads :
     /\ pc[r] = "done" /\ Len(cleaned[r]) = 1
     /\ outcome[r].kind = "InsufficientData"
     /\ keyword[r] \notin DOMAIN cache

\* the kinds of failure the retry loop is said never to retry
NotRetriedKinds == {"NotFound", "InsufficientData", "Internal"}

\* the running call of thread r ends in this step
Leaves(r) == pc[r] \in InFlight /\ pc'[r] = "done"

\* thread r is answered InvalidInput in this step
Rejected(r) == outcome'[r].kind = "InvalidInput" /\ outcome[r].kind # "InvalidInput"

FailedWith429Text(r, i) ==
  \/ answers[r][i] = "429"
  \/ answers[r][i] = "error" /\ Contains(ConnMsg(keyword[r]), S429)

OutcomeKinds ==
  {"Ok", "InvalidInput", "NotFound", "InsufficientData", "RateLimited", "Internal"}

(* C13: under fair scheduling every call that is running eventually ends,  *)
(* whatever the provider answers and whatever the other threads do; a call *)
(* that has ended has exactly one outcome, a result or one of the five     *)
(* failures; and no call goes beyond attempt max_retries.                  *)
C13_EveryCallFinishes ==
  /\ \A r \in Threads : (pc[r] \in InFlight) ~> (pc[r] = "done")
  /\ [](\A r \in Threads :
          /\ pc[r] = "done" => outcome[r].kind \in OutcomeKinds
          /\ pc[r] \in InFlight =>
                /\ outcome[r] = NoOutcome
                /\ attempt[r] < max_retries
                /\ Len(answers[r]) <= max_retries)

\* every call has been made and has ended, one of them rate-limited on
\* every attempt
C13_Witness ==
  /\ calls = MaxCalls
  /\ \A r \in Threads : pc[r] \in {"idle", "done"}
  /\ \E r \in Threads :
        pc[r] = "done" /\ final[r] = "429" /\ outcome[r].kind = "RateLimited"

\* thread r of the pair has classified its series
Classed(r) == r \in Pair /\ pc[r] = "related"

(* C14: classify_trend answers every slope with exactly one of Rising,     *)
(* Stable and Declining: Rising exactly for the slopes above 0.8,          *)
(* Declining exactly for those below -0.8, and Stable for the rest, the    *)
(* slopes 0.8 and -0.8 themselves included.                                *)
C14_ExclusiveThresholds ==
  \A r \in Threads :
     Classed(r) =>
        LET num == slopes[r][1]
            den == slopes[r][2]
            trend == response[r].trend
        IN  /\ den > 0
            /\ trend \in {"Rising", "Stable", "Declining"}
            /\ trend = "Rising" <=> 10 * num > 8 * den
            /\ trend = "Declining" <=> 10 * num < -8 * den
            /\ (10 * num = 8 * den \/ 10 * num = -8 * den) => trend = "Stable"

\* one series of slope exactly 0.8 and one of slope exactly -0.8 have been
\* classified Stable
C14_Witness ==
  /\ Classed(1) /\ 5 * slopes[1][1] = 4 * slopes[1][2]
  /\ response[1].trend = "Stable"
  /\ Classed(2) /\ 5 * slopes[2][1] = -4 * slopes[2][2]
  /\ response[2].trend = "Stable"

\* the slope a is at most the slope b
SlopeLeq(a, b) == a[1] * b[2] <= b[1] * a[2]

(* C15: the score of a slope s is an integer in 0..100, the integer        *)
(* nearest to 12 * s + 50 where that lies in [0, 100], 100 for every       *)
(* s >= 50/12 and 0 for every s <= -50/12, 50 for s = 0, and of two slopes *)
(* the greater never has the lower score.                                  *)
C15_ScoreClampedMonotone ==
  /\ \A r \in Threads :
        Classed(r) =>
           LET num == slopes[r][1]
               den == slopes[r][2]
               score == response[r].score
           IN  /\ score \in 0..100
               /\ num = 0 => score = 50
               /\ 12 * num >= 50 * den => score = 100
               /\ 12 * num <= -50 * den => score = 0
               /\ (-50 * den <= 12 * num /\ 12 * num <= 50 * den) =>
                     2 * Abs(score * den - (12 * num + 50 * den)) <= den
  /\ \A r1, r2 \in Threads :
        (Classed(r1) /\ Classed(r2) /\ SlopeLeq(slopes[r1], slopes[r2]))
           => response[r1].score <= response[r2].score

\* the slope 10 has the score 100 and the slope -10 the score 0
C15_Witness ==
  /\ Classed(1) /\ slopes[1][1] = 10 * slopes[1][2] /\ response[1].score = 100
  /\ Classed(2) /\ slopes[2][1] = -10 * slopes[2][2] /\ response[2].score = 0

\* y is an arithmetic progression of at least two points
IsProgression(y) ==
  /\ Len(y) >= 2
  /\ \A i \in 2..Len(y) : y[i] - y[i - 1] = y[2] - y[1]

(* C16: the slope of a cleaned series of 2 to 7 points that is an          *)
(* arithmetic progression is exactly its common difference, and the slope  *)
(* of a series of fewer than 2 points is 0; so 10, 20, ..., 70 has slope   *)
(* 10 and is Rising with score 100 and confidence High, and 5, 5, 5, 5, 5  *)
(* has slope 0 and is Stable with score 50 and confidence Low.             *)
C16_SlopeOfProgression ==
  \A r \in Threads :
     Classed(r) =>
        LET y == cleaned[r]
            num == slopes[r][1]
            den == slopes[r][2]
        IN  /\ den > 0
            /\ Len(y) < 2 => num = 0
            /\ IsProgression(y) => num = (y[2] - y[1]) * den
            /\ y = <<10, 20, 30, 40, 50, 60, 70>> =>
                  /\ num = 10 * den
                  /\ response[r].trend = "Rising"
                  /\ response[r].score = 100
                  /\ response[r].confidence = "High"
            /\ y = <<5, 5, 5, 5, 5>> =>
                  /\ num = 0
                  /\ response[r].trend = "Stable"
                  /\ response[r].score = 50
                  /\ response[r].confidence = "Low"

\* the two series of the examples have been classified
C16_Witness ==
  /\ Classed(1) /\ cleaned[1] = <<10, 20, 30, 40, 50, 60, 70>>
  /\ slopes[1][1] = 10 * slopes[1][2] /\ response[1].trend = "Rising"
  /\ Classed(2) /\ cleaned[2] = <<5, 5, 5, 5, 5>>
  /\ slopes[2][1] = 0 /\ response[2].trend = "Stable"

\* the backoff waits among the sleeps s of a fetch, and the pauses
Waits(s) == [i \in 1..(Len(s) \div 2) |-> s[2 * i]]
Pauses(s) == [i \in 1..((Len(s) + 1) \div 2) |-> s[2 * i - 1]]

\* the call of thread r ends in this step on a rate-limit signal, as did
\* each of its earlier attempts
EndsRateLimited(r) ==
  Leaves(r) /\ final'[r] = "429" /\ All429(answers[r])

(* C17, as stated: a fetch that is rate-limited on every attempt waits 10, *)
(* then 20, then 30, one wait after each of its three attempts.            *)
C17_WaitsTenTwentyThirty ==
  [][\A r \in Threads :
        EndsRateLimited(r) =>
           \/ Waits(sleeps[r]) = <<10, 20, 30>>
           \/ Waits(sleeps'[r]) = <<10, 20, 30>>]_vars

(* C17, amended: a fetch that is rate-limited on every attempt waits 10    *)
(* after the first attempt and 20 after the second, each attempt preceded  *)
(* by the pause of 2; the third attempt ends the call with no wait after   *)
(* it, so no fetch ever waits 30.                                          *)
C17_WaitsTenTwenty ==
  /\ [](\A r \in Threads :
          /\ \A i \in 1..Len(sleeps[r]) : sleeps[r][i] # 30
          /\ \A i \in 1..Len(Pauses(sleeps[r])) : Pauses(sleeps[r])[i] = PauseFetch
          /\ (pc[r] \in {"build", "read", "backoff"} /\ All429(answers[r])) =>
                /\ Len(Waits(sleeps[r])) \in {attempt[r], Len(answers[r])}
                /\ Waits(sleeps[r]) =
                      SubSeq(<<10, 20>>, 1, Len(Waits(sleeps[r]))))
  /\ [][\A r \in Threads :
          EndsRateLimited(r) =>
             /\ pc[r] \in {"build", "read"}
             /\ Len(answers[r]) = 2
             /\ Waits(sleeps[r]) = <<10, 20>>
             /\ Len(Pauses(sleeps[r])) = (IF pc[r] = "read" THEN 3 ELSE 2)
       ]_vars

\* a fetch rate-limited twice has waited 10 and 20 and is at its third
\* attempt, the other thread's call having ended rate-limited
C17_Witness ==
  \E r, o \in Threads :
     /\ pc[r] = "read" /\ attempt[r] = 2 /\ answers[r] = <<"429", "429">>
     /\ Waits(sleeps[r]) = <<10, 20>> /\ Pauses(sleeps[r]) = <<2, 2, 2>>
     /\ pc[o] = "done" /\ final[o] = "429" /\ outcome[o].kind = "RateLimited"

\* thread r runs line 61 in this step: pytrend = get_pytrend()
Rebinds(r) == pc[r] = "backoff" /\ pc'[r] # "backoff"

\* thread r runs build_payload in this step, which changes the payload of
\* the client the handle names and not the handle
BuildsPayload(r) ==
  /\ pc[r] = "build" /\ pc'[r] # "build"
  /\ pytrend'.kw_list = <<keyword[r]>>
  /\ pytrend.built => pytrend'.built

(* C18, as stated: the handle is replaced by a fresh client exactly in the *)
(* step after a rate-limit signal with attempts remaining, after the       *)
(* backoff wait and before the next attempt's pause; an attempt that       *)
(* succeeds, fails otherwise or is rate-limited at the last attempt, a     *)
(* related lookup, a cache hit and a rejected keyword leave it as it was.  *)
C18_HandleReplacedOnlyAfter429 ==
  [][/\ \A r \in Threads :
          /\ Rebinds(r) =>
                /\ answers[r] # <<>> /\ answers[r][Len(answers[r])] = "429"
                /\ attempt[r] < max_retries - 1
                /\ pytrend' = get_pytrend
                /\ sleeps'[r] = Append(sleeps[r], (attempt[r] + 1) * 10)
                /\ pc'[r] = "build" /\ attempt'[r] = attempt[r] + 1
          /\ (pc[r] \in {"build", "read"} /\ pc'[r] = "backoff") =>
                /\ answers'[r] = Append(answers[r], "429")
                /\ attempt[r] < max_retries - 1
          /\ (pc[r] \in {"build", "read"} /\ pc'[r] = "done" /\ final'[r] = "429")
                => attempt[r] = max_retries - 1
     /\ (\A r \in Threads : ~Rebinds(r)) =>
           \/ pytrend' = pytrend
           \/ \E r \in Threads : BuildsPayload(r)
    ]_vars

\* the result b agrees with its own graph_data
Consistent(b) ==
  LET s == calculate_slope(b.graph_data)
  IN  /\ Len(b.graph_data) \in MinPoints..WindowLen
      /\ b.trend = classify_trend(s)
      /\ b.score = calculate_score(s)
      /\ b.confidence = determine_confidence(s)
      /\ b.best_posting_time = get_best_posting_time(classify_trend(s))
      /\ b.trend \in {"Rising", "Declining"} => b.confidence \in {"Medium", "High"}
      /\ b.confidence = "Low" => b.trend = "Stable"
      /\ b.trend = "Rising" => b.score >= 60
      /\ b.trend = "Declining" => b.score <= 40

====
